---- MODULE Spec2Model ----
(***************************************************************************)
(* CropWise, static/js/charts.js: the range normalizer (normalize, the     *)
(* optimal-interval start/width pairs, the top-5 confidence selection),    *)
(* the three Chart.js handles kept on window, and the fetch callbacks that *)
(* drive them.                                                             *)
(*                                                                         *)
(* JavaScript numbers are modelled as exact rationals [n, d] in lowest     *)
(* terms (d > 0); IEEE-754 rounding, NaN and the infinities are outside    *)
(* the model, so normalize is only applied with min # max.                 *)
(***************************************************************************)
EXTENDS Integers, Sequences, FiniteSets, TLC

VARIABLES
    call,      \* the arguments a pure operation is applied to
    ret,       \* its result, or NotYet
    form,      \* #recommendation-form: field name -> the string in the field
    window,    \* window.confidenceChart / parameterChart / rangeChart
    live,      \* the Chart objects constructed and not yet destroyed
    created,   \* how many Chart objects have been constructed so far
    pending,   \* the fetches in flight, each with what its callbacks closed over
    page,      \* what the page shows besides the charts
    sent,      \* how many times the user has submitted a form
    passes     \* history: the rendering passes of the parameter chart so far

\* what the create functions and the pure operations leave alone
pageVars == <<pending, page, sent, passes>>

vars == <<call, ret, form, window, live, created, pageVars>>

----------------------------------------------------------------------------
(* Numbers *)

Abs(x) == IF x < 0 THEN -x ELSE x

RECURSIVE GCD(_, _)
GCD(a, b) == IF b = 0 THEN a ELSE GCD(b, a % b)

\* the rational n/d in lowest terms with a positive denominator (d # 0)
Rat(n, d) ==
    LET s == IF d < 0 THEN -1 ELSE 1
        g == GCD(Abs(n), Abs(d))
    IN  [n |-> (s * n) \div g, d |-> (s * d) \div g]

Num(i) == [n |-> i, d |-> 1]

RSub(a, b) == Rat(a.n * b.d - b.n * a.d, a.d * b.d)
RMul(a, b) == Rat(a.n * b.n, a.d * b.d)
RDiv(a, b) == Rat(a.n * b.d, a.d * b.n)
RLess(a, b) == a.n * b.d < b.n * a.d
RLeq(a, b) == a.n * b.d <= b.n * a.d

----------------------------------------------------------------------------
(* createParameterComparisonChart: the normalizer *)

Params == <<"n", "p", "k", "temp", "humidity", "ph", "rainfall">>
ParamSet == {Params[i] : i \in 1..Len(Params)}

normalizeNoOffset(value, min, max) ==
    RMul(RDiv(value, RSub(max, min)), Num(100))

normalizeClamped(value, min, max) ==
    LET r == RMul(RDiv(RSub(value, min), RSub(max, min)), Num(100))
    IN  IF RLess(r, Num(0)) THEN Num(0)
        ELSE IF RLess(Num(100), r) THEN Num(100) ELSE r

\* const normalize = (value, min, max) => ((value - min) / (max - min)) * 100
normalize(value, min, max) ==
    RMul(RDiv(RSub(value, min), RSub(max, min)), Num(100))

rangesShifted ==
    [n |-> <<0, 140>>, p |-> <<0, 145>>, k |-> <<5, 205>>, temp |-> <<0, 50>>,
     humidity |-> <<0, 100>>, ph |-> <<0, 14>>, rainfall |-> <<0, 300>>]

\* const ranges = { n: [0, 140], ... }
ranges ==
    [n |-> <<0, 140>>, p |-> <<5, 145>>, k |-> <<5, 205>>, temp |-> <<0, 50>>,
     humidity |-> <<0, 100>>, ph |-> <<0, 14>>, rainfall |-> <<0, 300>>]

\* conditions.n_min, conditions.temperature_min, ... as the code spells them out
condMin(conditions, p) ==
    CASE p = "n" -> conditions.n_min
      [] p = "p" -> conditions.p_min
      [] p = "k" -> conditions.k_min
      [] p = "temp" -> conditions.temperature_min
      [] p = "humidity" -> conditions.humidity_min
      [] p = "ph" -> conditions.ph_min
      [] p = "rainfall" -> conditions.rainfall_min

condMax(conditions, p) ==
    CASE p = "n" -> conditions.n_max
      [] p = "p" -> conditions.p_max
      [] p = "k" -> conditions.k_max
      [] p = "temp" -> conditions.temperature_max
      [] p = "humidity" -> conditions.humidity_max
      [] p = "ph" -> conditions.ph_max
      [] p = "rainfall" -> conditions.rainfall_max

normalizedOptimalMin(conditions) ==
    [p \in ParamSet |->
        normalize(condMin(conditions, p), Num(ranges[p][1]), Num(ranges[p][2]))]

normalizedOptimalMax(conditions) ==
    [p \in ParamSet |->
        normalize(condMax(conditions, p), Num(ranges[p][1]), Num(ranges[p][2]))]

optimalRangeWidthSwapped(conditions) ==
    [p \in ParamSet |->
        RSub(normalizedOptimalMin(conditions)[p], normalizedOptimalMax(conditions)[p])]

optimalRangeWidth(conditions) ==
    [p \in ParamSet |->
        RSub(normalizedOptimalMax(conditions)[p], normalizedOptimalMin(conditions)[p])]

----------------------------------------------------------------------------
(* createRangeChart: the inline start/width computation *)

\* const parameters = [ { name: 'Nitrogen', min: conditions.n_min, ...,
\*                        totalRange: [0, 140] }, ... ]
parameters(conditions) ==
    << [name |-> "Nitrogen",    min |-> conditions.n_min,           max |-> conditions.n_max,           totalRange |-> <<0, 140>>],
       [name |-> "Phosphorus",  min |-> conditions.p_min,           max |-> conditions.p_max,           totalRange |-> <<5, 145>>],
       [name |-> "Potassium",   min |-> conditions.k_min,           max |-> conditions.k_max,           totalRange |-> <<5, 205>>],
       [name |-> "Temperature", min |-> conditions.temperature_min, max |-> conditions.temperature_max, totalRange |-> <<0, 50>>],
       [name |-> "Humidity",    min |-> conditions.humidity_min,    max |-> conditions.humidity_max,    totalRange |-> <<0, 100>>],
       [name |-> "pH",          min |-> conditions.ph_min,          max |-> conditions.ph_max,          totalRange |-> <<0, 14>>],
       [name |-> "Rainfall",    min |-> conditions.rainfall_min,    max |-> conditions.rainfall_max,    totalRange |-> <<0, 300>>] >>

\* const data = parameters.map(param => { ... })
rangeData(conditions) ==
    [i \in 1..Len(parameters(conditions)) |->
        LET param == parameters(conditions)[i]
            totalRange == RSub(Num(param.totalRange[2]), Num(param.totalRange[1]))
            minPercent == RMul(RDiv(RSub(param.min, Num(param.totalRange[1])), totalRange), Num(100))
            maxPercent == RMul(RDiv(RSub(param.max, Num(param.totalRange[1])), totalRange), Num(100))
            rangeWidth == RSub(maxPercent, minPercent)
        IN  [parameter |-> param.name,
             minValue |-> param.min,
             maxValue |-> param.max,
             startPosition |-> minPercent,
             rangeWidth |-> rangeWidth]]

----------------------------------------------------------------------------
(* Strings are sequences of one-character strings, so that                 *)
(* capitalizeFirstLetter is computed and not assumed.                      *)

LowerCase == <<"a","b","c","d","e","f","g","h","i","j","k","l","m",
               "n","o","p","q","r","s","t","u","v","w","x","y","z">>
UpperCase == <<"A","B","C","D","E","F","G","H","I","J","K","L","M",
               "N","O","P","Q","R","S","T","U","V","W","X","Y","Z">>

\* String.prototype.toUpperCase on one character
toUpperCase(c) ==
    IF \E i \in 1..Len(LowerCase) : LowerCase[i] = c
    THEN UpperCase[CHOOSE i \in 1..Len(LowerCase) : LowerCase[i] = c]
    ELSE c

\* string.split(' ').map(word => word.charAt(0).toUpperCase() + word.slice(1)).join(' ')
capitalizeFirstLetter(string) ==
    [i \in 1..Len(string) |->
        IF i = 1 \/ string[i - 1] = " " THEN toUpperCase(string[i]) ELSE string[i]]

----------------------------------------------------------------------------
(* createConfidenceChart: the top-5 selection.  An object is the sequence  *)
(* of its [key, value] entries in insertion order (the keys are crop       *)
(* names, never integer-like, so Object.keys keeps insertion order).       *)

ObjectKeys(o) == [i \in 1..Len(o) |-> o[i].key]
ObjectValues(o) == [i \in 1..Len(o) |-> o[i].value]

compareAscending(a, b) == a.score - b.score

\* the comparator (a, b) => b.score - a.score
compare(a, b) == b.score - a.score

\* Array.prototype.sort is stable (ECMAScript 2019): an element is placed
\* after every element that does not compare greater than it
RECURSIVE insertSorted(_, _)
insertSorted(sorted, x) ==
    IF sorted = <<>> THEN <<x>>
    ELSE IF compare(sorted[Len(sorted)], x) > 0
         THEN Append(insertSorted(SubSeq(sorted, 1, Len(sorted) - 1), x), sorted[Len(sorted)])
         ELSE Append(sorted, x)

RECURSIVE insertSortedUnstable(_, _)
insertSortedUnstable(sorted, x) ==
    IF sorted = <<>> THEN <<x>>
    ELSE IF compare(sorted[Len(sorted)], x) >= 0
         THEN Append(insertSortedUnstable(SubSeq(sorted, 1, Len(sorted) - 1), x), sorted[Len(sorted)])
         ELSE Append(sorted, x)

RECURSIVE sortUnstable(_)
sortUnstable(array) ==
    IF array = <<>> THEN <<>>
    ELSE insertSortedUnstable(sortUnstable(SubSeq(array, 1, Len(array) - 1)), array[Len(array)])

RECURSIVE sort(_)
sort(array) ==
    IF array = <<>> THEN <<>>
    ELSE insertSorted(sort(SubSeq(array, 1, Len(array) - 1)), array[Len(array)])

\* Array.prototype.slice(begin, end) for 0 <= begin <= end
sliceOneMore(array, begin, end) ==
    SubSeq(array, begin + 1, IF end + 1 < Len(array) THEN end + 1 ELSE Len(array))

slice(array, begin, end) ==
    SubSeq(array, begin + 1, IF end < Len(array) THEN end ELSE Len(array))

\* const combinedData = crops.map((crop, i) => ({ crop, score: scores[i] }))
combinedData(confidenceScores) ==
    LET crops == [i \in 1..Len(confidenceScores) |->
                     capitalizeFirstLetter(ObjectKeys(confidenceScores)[i])]
        scores == ObjectValues(confidenceScores)
    IN  [i \in 1..Len(crops) |-> [crop |-> crops[i], score |-> scores[i]]]

\* lines 5-15 with the 5 of slice(0, 5) as the parameter k
topK(confidenceScores, k) == slice(sort(combinedData(confidenceScores)), 0, k)

\* slice(0, 5)
TopCount == 5

----------------------------------------------------------------------------
(* The form and parseFloat *)

Digits == <<"0","1","2","3","4","5","6","7","8","9">>
DigitValue(c) == (CHOOSE i \in 1..Len(Digits) : Digits[i] = c) - 1

RECURSIVE ParseDigits(_)
ParseDigits(s) ==
    IF s = <<>> THEN 0
    ELSE 10 * ParseDigits(SubSeq(s, 1, Len(s) - 1)) + DigitValue(s[Len(s)])

RECURSIVE Pow10(_)
Pow10(e) == IF e = 0 THEN 1 ELSE 10 * Pow10(e - 1)

\* parseFloat on a decimal literal: [-]digits[.digits]
parseFloat(string) ==
    LET negative == string[1] = "-"
        body == IF negative THEN Tail(string) ELSE string
        dots == {i \in 1..Len(body) : body[i] = "."}
        dot == IF dots = {} THEN Len(body) + 1 ELSE CHOOSE i \in dots : TRUE
        whole == SubSeq(body, 1, dot - 1)
        fraction == SubSeq(body, dot + 1, Len(body))
        magnitude == Rat(ParseDigits(whole \o fraction), Pow10(Len(fraction)))
    IN  IF negative THEN RSub(Num(0), magnitude) ELSE magnitude

FormFields == <<"nitrogen", "phosphorus", "potassium", "temperature",
                "humidity", "ph", "rainfall">>

\* const userValues = { n: parseFloat(formData.get('nitrogen')), ... }
userValues(formData) ==
    [n |-> parseFloat(formData.nitrogen),
     p |-> parseFloat(formData.phosphorus),
     k |-> parseFloat(formData.potassium),
     temp |-> parseFloat(formData.temperature),
     humidity |-> parseFloat(formData.humidity),
     ph |-> parseFloat(formData.ph),
     rainfall |-> parseFloat(formData.rainfall)]

normalizedUserValues(values) ==
    [p \in ParamSet |-> normalize(values[p], Num(ranges[p][1]), Num(ranges[p][2]))]

----------------------------------------------------------------------------
(* The Chart objects.  A chart is what new Chart(ctx, config) was given:   *)
(* the canvas, the labels, the datasets, and what its tooltip callbacks    *)
(* closed over.  dom = [window, live, created] is the part of the page the *)
(* three create functions read and write.                                  *)

NoClosure == [userValues |-> <<>>, conditionMin |-> <<>>, conditionMax |-> <<>>]

\* window.confidenceChart etc. before the first draw
Undefined ==
    [id |-> 0, canvas |-> "", labels |-> <<>>, datasets |-> <<>>, closure |-> NoClosure]

Canvases == {"confidence-chart", "parameter-chart", "range-chart"}

\* new Chart(ctx, config)
NewChart(dom, canvas, labels, datasets, closure) ==
    [id |-> dom.created + 1, canvas |-> canvas, labels |-> labels,
     datasets |-> datasets, closure |-> closure]

\* if (chart) { chart.destroy(); }
destroy(liveCharts, chart) ==
    IF chart # Undefined THEN liveCharts \ {[id |-> chart.id, canvas |-> chart.canvas]}
    ELSE liveCharts

constructed(liveCharts, chart) ==
    liveCharts \cup {[id |-> chart.id, canvas |-> chart.canvas]}

createConfidenceChart(dom, confidenceScores) ==
    LET top5 == topK(confidenceScores, TopCount)
        top5Crops == [i \in 1..Len(top5) |-> top5[i].crop]
        top5Scores == [i \in 1..Len(top5) |-> top5[i].score]
        chart == NewChart(dom, "confidence-chart", top5Crops,
                     << [label |-> "Confidence Score (%)", data |-> top5Scores,
                         base |-> <<>>] >>,
                     NoClosure)
    IN  [window |-> [dom.window EXCEPT !.confidenceChart = chart],
         live |-> constructed(destroy(dom.live, dom.window.confidenceChart), chart),
         created |-> dom.created + 1]

\* the two datasets of the parameter chart: 'Your Soil' and 'Optimal Range'
parameterDatasetsClamped(values, conditions) ==
    << [label |-> "Your Soil",
        data |-> [i \in 1..Len(Params) |->
                    normalizeClamped(values[Params[i]], Num(ranges[Params[i]][1]),
                                     Num(ranges[Params[i]][2]))],
        base |-> <<>>],
       [label |-> "Optimal Range",
        data |-> [i \in 1..Len(Params) |-> optimalRangeWidth(conditions)[Params[i]]],
        base |-> <<>>] >>

parameterDatasets(values, conditions) ==
    << [label |-> "Your Soil",
        data |-> [i \in 1..Len(Params) |-> normalizedUserValues(values)[Params[i]]],
        base |-> <<>>],
       [label |-> "Optimal Range",
        data |-> [i \in 1..Len(Params) |-> optimalRangeWidth(conditions)[Params[i]]],
        base |-> <<>>] >>

ParameterLabels ==
    <<"Nitrogen", "Phosphorus", "Potassium", "Temperature", "Humidity", "pH", "Rainfall">>

\* formElement is document.getElementById('recommendation-form') as it is
\* when the function runs; data (the recommendation) is not read
createParameterComparisonChart(dom, formElement, data, conditions) ==
    LET values == userValues(formElement)
        chart == NewChart(dom, "parameter-chart", ParameterLabels,
                     parameterDatasets(values, conditions),
                     [userValues |-> [i \in 1..Len(Params) |-> values[Params[i]]],
                      conditionMin |-> [i \in 1..Len(Params) |-> condMin(conditions, Params[i])],
                      conditionMax |-> [i \in 1..Len(Params) |-> condMax(conditions, Params[i])]])
    IN  [window |-> [dom.window EXCEPT !.parameterChart = chart],
         live |-> constructed(destroy(dom.live, dom.window.parameterChart), chart),
         created |-> dom.created + 1]

createRangeChartWrongHandle(dom, cropName, conditions) ==
    LET data == rangeData(conditions)
        chart == NewChart(dom, "range-chart",
                     [i \in 1..Len(data) |-> data[i].parameter],
                     << [label |-> "Parameter Range",
                         data |-> [i \in 1..Len(data) |-> data[i].rangeWidth],
                         base |-> [i \in 1..Len(data) |-> data[i].startPosition]] >>,
                     [userValues |-> <<>>,
                      conditionMin |-> [i \in 1..Len(data) |-> data[i].minValue],
                      conditionMax |-> [i \in 1..Len(data) |-> data[i].maxValue]])
    IN  [window |-> [dom.window EXCEPT !.rangeChart = chart],
         live |-> constructed(destroy(dom.live, dom.window.parameterChart), chart),
         created |-> dom.created + 1]

\* cropName is not read
createRangeChart(dom, cropName, conditions) ==
    LET data == rangeData(conditions)
        chart == NewChart(dom, "range-chart",
                     [i \in 1..Len(data) |-> data[i].parameter],
                     << [label |-> "Parameter Range",
                         data |-> [i \in 1..Len(data) |-> data[i].rangeWidth],
                         base |-> [i \in 1..Len(data) |-> data[i].startPosition]] >>,
                     [userValues |-> <<>>,
                      conditionMin |-> [i \in 1..Len(data) |-> data[i].minValue],
                      conditionMax |-> [i \in 1..Len(data) |-> data[i].maxValue]])
    IN  [window |-> [dom.window EXCEPT !.rangeChart = chart],
         live |-> constructed(destroy(dom.live, dom.window.rangeChart), chart),
         created |-> dom.created + 1]

----------------------------------------------------------------------------
(* Sample data *)

MaxGrid == 5
MaxLabels == 6
MaxK == 5

\* the domains normalize is applied to: the seven of the table and two more
DomainSamples == {ranges[p] : p \in ParamSet} \cup {<<-10, 10>>, <<20, 21>>}

ValueSamples ==
    {Num(10 * i - 10) : i \in 0..MaxGrid}
        \cup {Num(d[1]) : d \in DomainSamples} \cup {Num(d[2]) : d \in DomainSamples}
        \cup {Num(7), Num(70), Num(310), Rat(13, 2)}

\* a crop_conditions record
Conditions(description, n1, n2, p1, p2, k1, k2, t1, t2, h1, h2, ph1, ph2, r1, r2) ==
    [description |-> description,
     n_min |-> n1, n_max |-> n2, p_min |-> p1, p_max |-> p2, k_min |-> k1, k_max |-> k2,
     temperature_min |-> t1, temperature_max |-> t2,
     humidity_min |-> h1, humidity_max |-> h2,
     ph_min |-> ph1, ph_max |-> ph2, rainfall_min |-> r1, rainfall_max |-> r2]

\* every parameter with the same optimal interval [lo, hi]
UniformConditions(lo, hi) ==
    Conditions("uniform", lo, hi, lo, hi, lo, hi, lo, hi, lo, hi, lo, hi, lo, hi)

\* humidity with the optimal interval [lo, hi] and every other parameter with
\* an interval of its own: the i-th has [lo + (i - 5), hi + 2 * (i - 5)]
SpreadConditions(lo, hi) ==
    LET Low(i) == RSub(lo, Num(5 - i))
        High(i) == RSub(hi, Num(2 * (5 - i)))
    IN  Conditions("spread", Low(1), High(1), Low(2), High(2), Low(3), High(3),
                   Low(4), High(4), Low(5), High(5), Low(6), High(6), Low(7), High(7))

LabelPool ==
    << <<"w","h","e","a","t">>, <<"r","i","c","e">>, <<"m","a","i","z","e">>,
       <<"R","i","c","e">>, <<"j","u","t","e">>,
       <<"k","i","d","n","e","y"," ","b","e","a","n","s">>,
       <<"t","e","a">>, <<"o","a","t","s">> >>

ScoreValues == {85, 90, 95}

\* the object { LabelPool[1]: values[1], LabelPool[2]: values[2], ... }
MkObject(values) ==
    [i \in 1..Len(values) |-> [key |-> LabelPool[i], value |-> values[i]]]

Min(a, b) == IF a < b THEN a ELSE b

----------------------------------------------------------------------------
(* The initial page *)

NoCall == [op |-> "none"]

EmptyWindow ==
    [confidenceChart |-> Undefined, parameterChart |-> Undefined, rangeChart |-> Undefined]

FormSamples ==
    { [nitrogen |-> <<"7","0">>, phosphorus |-> <<"4","0">>, potassium |-> <<"4","5">>,
       temperature |-> <<"2","5">>, humidity |-> <<"8","0">>, ph |-> <<"6",".","5">>,
       rainfall |-> <<"2","0","0">>],
      [nitrogen |-> <<"2","0">>, phosphorus |-> <<"1","4","5">>, potassium |-> <<"5">>,
       temperature |-> <<"0">>, humidity |-> <<"1","0","0">>, ph |-> <<"7">>,
       rainfall |-> <<"3","0","0">>],
      [nitrogen |-> <<"1","5","0">>, phosphorus |-> <<"0">>, potassium |-> <<"2","1","0">>,
       temperature |-> <<"-","5">>, humidity |-> <<"1","0","1",".","5">>, ph |-> <<"1","4",".","2","5">>,
       rainfall |-> <<"3","1","0">>] }

\* the elements the handlers write, as the templates deliver them
InitialPage ==
    [loadingSpinner |-> "none", resultsSection |-> "none",
     cropName |-> <<>>, cropConfidence |-> "", cropDescription |-> "",
     parameterTable |-> <<>>,
     alerts |-> <<>>,
     reverseLoadingSpinner |-> "none", conditionsSection |-> "none",
     conditionsCropName |-> <<>>, conditionsCropDescription |-> "",
     conditionsTable |-> <<>>,
     cropGrid |-> <<>>]

PageInit ==
    /\ window = EmptyWindow
    /\ live = {}
    /\ created = 0
    /\ pending = {}
    /\ page = InitialPage
    /\ sent = 0
    /\ passes = {}

----------------------------------------------------------------------------
(* SpecNormalize: normalize and the two interval computations on sampled   *)
(* arguments                                                               *)

InitNormalize ==
    /\ call \in [op : {"normalize"}, value : ValueSamples, other : ValueSamples,
                 range : DomainSamples]
            \cup [op : {"interval"}, value : ValueSamples, other : ValueSamples,
                  range : {<<0, 100>>}]
    /\ ret = <<>>
    /\ form \in {CHOOSE f \in FormSamples : TRUE}
    /\ PageInit

\* normalize(value, lo, hi) and normalize(other, lo, hi)
ApplyNormalize ==
    /\ call.op = "normalize"
    /\ ret = <<>>
    /\ ret' = << normalize(call.value, Num(call.range[1]), Num(call.range[2])),
                 normalize(call.other, Num(call.range[1]), Num(call.range[2])) >>
    /\ UNCHANGED <<call, form, window, live, created, pageVars>>

\* the optimal intervals of a conditions record whose humidity interval is
\* [value, other], as each chart computes them
ApplyInterval ==
    /\ call.op = "interval"
    /\ ret = <<>>
    /\ LET conditions == SpreadConditions(call.value, call.other)
       IN  ret' = << [conditions |-> conditions,
                      start |-> normalizedOptimalMin(conditions),
                      width |-> optimalRangeWidth(conditions),
                      data |-> rangeData(conditions)] >>
    /\ UNCHANGED <<call, form, window, live, created, pageVars>>

NextNormalize == ApplyNormalize \/ ApplyInterval

SpecNormalize == InitNormalize /\ [][NextNormalize]_vars

\* exactly (value - lo) / (hi - lo) * 100, stated without division
IsPercentOf(percent, value, lo, hi) ==
    percent.n * value.d * (hi - lo) = (value.n - lo * value.d) * 100 * percent.d

\* C1: for every sampled domain lo < hi (the seven hardcoded ones among them)
\* normalize(value, lo, hi) is (value - lo) / (hi - lo) * 100; it is 0 at lo,
\* 100 at hi, and normalize(70, 0, 140) is 50.
C1_NormalizeFormula ==
    (call.op = "normalize" /\ ret # <<>>) =>
        LET lo == call.range[1]
            hi == call.range[2]
        IN  /\ lo < hi
            /\ IsPercentOf(ret[1], call.value, lo, hi)
            /\ (call.value = Num(lo) => ret[1] = Num(0))
            /\ (call.value = Num(hi) => ret[1] = Num(100))
            /\ (call.value = Num(70) /\ lo = 0 /\ hi = 140 => ret[1] = Num(50))

C1_Witness ==
    /\ call.op = "normalize" /\ ret # <<>>
    /\ call.range = <<5, 145>>
    /\ call.value = Num(145)
    /\ ret[1] = Num(100)

\* C2: for a fixed domain lo < hi, value <= other gives
\* normalize(value) <= normalize(other), and value < other gives strictly less.
C2_NormalizeMonotonic ==
    (call.op = "normalize" /\ ret # <<>>) =>
        /\ (RLeq(call.value, call.other) => RLeq(ret[1], ret[2]))
        /\ (RLess(call.value, call.other) => RLess(ret[1], ret[2]))

C2_Witness ==
    /\ call.op = "normalize" /\ ret # <<>>
    /\ call.value = Rat(13, 2) /\ call.other = Num(7)
    /\ RLess(ret[1], ret[2])

\* C4: for the optimal interval [min, max] of each parameter the comparison
\* chart's start and width are normalize(min) and normalize(max) - normalize(min)
\* over the parameter's domain, the width is >= 0 when min <= max and negative
\* when min > max, the interval (20, 40) over [0, 100] gives (20, 20), and the
\* range chart's inline formula gives the same start and width.
C4_IntervalStartWidth ==
    (call.op = "interval" /\ ret # <<>>) =>
        \A i \in 1..Len(Params) :
            LET lo == ranges[Params[i]][1]
                hi == ranges[Params[i]][2]
                start == ret[1].start[Params[i]]
                width == ret[1].width[Params[i]]
                least == condMin(ret[1].conditions, Params[i])
                most == condMax(ret[1].conditions, Params[i])
                zero == Num(0)
            IN  /\ IsPercentOf(start, least, lo, hi)
                /\ IsPercentOf(width, RSub(most, least), 0, hi - lo)
                /\ (RLeq(least, most) => RLeq(zero, width))
                /\ (RLess(most, least) => RLess(width, zero))
                /\ (least = Num(20) /\ most = Num(40) /\ lo = 0 /\ hi = 100
                        => start = Num(20) /\ width = Num(20))
                /\ ret[1].data[i].startPosition = start
                /\ ret[1].data[i].rangeWidth = width

C4_Witness ==
    /\ call.op = "interval" /\ ret # <<>>
    /\ call.value = Num(40) /\ call.other = Num(20)
    /\ ret[1].width["humidity"] = Num(-20)
    /\ ret[1].data[5].rangeWidth = Num(-20)
    /\ ret[1].data[5].startPosition = Num(40)

----------------------------------------------------------------------------
(* SpecTopK: the top-k selection of createConfidenceChart on sampled       *)
(* confidence_scores objects, with the 5 of slice(0, 5) as k, and then the *)
(* chart itself                                                            *)

\* the object that assigning entries[i].crop -> entries[i].score in turn builds:
\* a key keeps the place of its first assignment and the value of its last
RECURSIVE ObjectFromEntries(_)
ObjectFromEntries(entries) ==
    IF entries = <<>> THEN <<>>
    ELSE LET before == ObjectFromEntries(SubSeq(entries, 1, Len(entries) - 1))
             entry == entries[Len(entries)]
         IN  IF \E i \in 1..Len(before) : before[i].key = entry.crop
             THEN [i \in 1..Len(before) |->
                      IF before[i].key = entry.crop
                      THEN [key |-> entry.crop, value |-> entry.score]
                      ELSE before[i]]
             ELSE Append(before, [key |-> entry.crop, value |-> entry.score])

InitTopK ==
    /\ call \in [op : {"topK"},
                 scores : {MkObject(values) :
                              values \in UNION {[1..n -> ScoreValues] : n \in 0..MaxLabels}},
                 k : 0..MaxK]
    /\ ret = <<>>
    /\ form \in {CHOOSE f \in FormSamples : TRUE}
    /\ PageInit

ApplyTopK ==
    /\ ret = <<>>
    /\ ret' = <<topK(call.scores, call.k)>>
    /\ UNCHANGED <<call, form, window, live, created, pageVars>>

\* topK applied to its own output
ApplyTopKAgain ==
    /\ Len(ret) = 1
    /\ ret' = Append(ret, topK(ObjectFromEntries(ret[1]), call.k))
    /\ UNCHANGED <<call, form, window, live, created, pageVars>>

\* createConfidenceChart(call.scores) on the initial page
DrawConfidenceChart ==
    /\ created = 0
    /\ LET dom == createConfidenceChart([window |-> window, live |-> live, created |-> created],
                                        call.scores)
       IN  /\ window' = dom.window
           /\ live' = dom.live
           /\ created' = dom.created
    /\ UNCHANGED <<call, ret, form, pageVars>>

NextTopK == ApplyTopK \/ ApplyTopKAgain \/ DrawConfidenceChart

SpecTopK == InitTopK /\ [][NextTopK]_vars

\* the entries of the input object as (label, score) pairs, labels as given
EntriesOf(object) ==
    [i \in 1..Len(object) |-> [crop |-> object[i].key, score |-> object[i].value]]

\* the same with every label capitalized for display
DisplayEntriesOf(object) ==
    [i \in 1..Len(object) |->
        [crop |-> capitalizeFirstLetter(object[i].key), score |-> object[i].value]]

Count(seq, e) == Cardinality({i \in 1..Len(seq) : seq[i] = e})
CountScore(seq, s) == Cardinality({i \in 1..Len(seq) : seq[i].score = s})
CountAbove(seq, s) == Cardinality({i \in 1..Len(seq) : seq[i].score > s})

\* out is min(k, n) of the pairs of entries, those with the highest scores, in
\* descending order of score
IsTopOf(out, entries, k) ==
    /\ Len(out) = Min(k, Len(entries))
    /\ \A i \in 1..Len(out) : \A j \in i..Len(out) : out[i].score >= out[j].score
    /\ \A i \in 1..Len(out) : Count(out, out[i]) <= Count(entries, out[i])
    /\ \A i \in 1..Len(entries) :
          LET s == entries[i].score
              room == k - CountAbove(entries, s)
          IN  CountScore(out, s) =
                  Min(CountScore(entries, s), IF room > 0 THEN room ELSE 0)

Wheat == <<"w","h","e","a","t">>
Maize == <<"m","a","i","z","e">>

\* C5 (original statement): topK returns min(k, n) pairs, the highest scores
\* in descending order, every returned label paired with its own score of the
\* input mapping; topK({wheat:90, rice:85, maize:95}, 2) = [(maize,95), (wheat,90)].
C5_Original ==
    ret # <<>> =>
        /\ IsTopOf(ret[1], EntriesOf(call.scores), call.k)
        /\ (call.scores = MkObject(<<90, 85, 95>>) /\ call.k = 2 =>
               ret[1] = << [crop |-> Maize, score |-> 95], [crop |-> Wheat, score |-> 90] >>)

\* C5 (amended): topK returns min(k, n) pairs, the highest scores in
\* descending order, every returned label being the capitalized form of an
\* input label and paired with that label's score;
\* topK({wheat:90, rice:85, maize:95}, 2) = [(Maize,95), (Wheat,90)].  The
\* confidence chart plots the result for k = 5.
C5_TopKCapitalized ==
    /\ ret # <<>> =>
          /\ IsTopOf(ret[1], DisplayEntriesOf(call.scores), call.k)
          /\ (call.scores = MkObject(<<90, 85, 95>>) /\ call.k = 2 =>
                 ret[1] = << [crop |-> capitalizeFirstLetter(Maize), score |-> 95],
                             [crop |-> capitalizeFirstLetter(Wheat), score |-> 90] >>)
    /\ window.confidenceChart # Undefined =>
          LET chart == window.confidenceChart
              plotted == [i \in 1..Len(chart.labels) |->
                             [crop |-> chart.labels[i], score |-> chart.datasets[1].data[i]]]
          IN  /\ Len(chart.datasets[1].data) = Len(chart.labels)
              /\ IsTopOf(plotted, DisplayEntriesOf(call.scores), 5)

C5_Witness ==
    /\ ret # <<>>
    /\ Len(call.scores) = 6 /\ call.k = 5
    /\ Len(ret[1]) = 5
    /\ ret[1][1].crop = <<"M","a","i","z","e">>
    /\ window.confidenceChart # Undefined
    /\ Len(window.confidenceChart.labels) = 5

\* the entries of seq with score s, in order
WithScore(seq, s) ==
    LET Test(e) == e.score = s
    IN  SelectSeq(seq, Test)

\* C6: ties keep insertion order: the returned pairs of one score are, in
\* order, the first inserted labels with that score, so of a tie that
\* straddles position k the earlier inserted labels are the ones kept.
C6_TiesByInsertionOrder ==
    ret # <<>> =>
        \A i \in 1..Len(call.scores) :
            LET s == call.scores[i].value
                kept == WithScore(ret[1], s)
            IN  kept = SubSeq(WithScore(DisplayEntriesOf(call.scores), s), 1, Len(kept))

C6_Witness ==
    /\ ret # <<>>
    /\ call.k = 2
    /\ call.scores = MkObject(<<90, 95, 90, 90>>)
    /\ ret[1][2] = [crop |-> <<"W","h","e","a","t">>, score |-> 90]

SortedDescending(object) ==
    \A i \in 1..Len(object) : \A j \in i..Len(object) : object[i].value >= object[j].value

DistinctLabels(entries) ==
    \A i \in 1..Len(entries) : \A j \in 1..Len(entries) :
        entries[i].crop = entries[j].crop => i = j

\* C7 (original statement): on an input sorted in descending score order with
\* at most k entries the output equals the input, and topK of that output is
\* the same sequence again.
C7_Original ==
    (Len(ret) = 2 /\ SortedDescending(call.scores) /\ Len(call.scores) <= call.k) =>
        /\ ret[1] = EntriesOf(call.scores)
        /\ ret[2] = ret[1]

\* C7 (amended): on an input sorted in descending score order with at most k
\* entries the output has the input's scores in the input's order, each label
\* capitalized; when the capitalized labels are distinct (the output is a
\* mapping again), topK of that output is the same sequence again.
C7_IdempotentCapitalized ==
    (ret # <<>> /\ SortedDescending(call.scores) /\ Len(call.scores) <= call.k) =>
        /\ ret[1] = DisplayEntriesOf(call.scores)
        /\ (Len(ret) = 2 /\ DistinctLabels(ret[1]) => ret[2] = ret[1])

C7_Witness ==
    /\ Len(ret) = 2
    /\ call.scores = MkObject(<<95, 90, 90>>) /\ call.k = 3
    /\ ret[2] = ret[1]
    /\ ret[1] # EntriesOf(call.scores)

----------------------------------------------------------------------------
(* SpecCharts: any sequence of calls of the three create functions, on     *)
(* sampled arguments, with the form edited in between                      *)

MaxCharts == 3

\* crop_conditions records: two as the backend has them, and one with values
\* outside the domains and a reversed interval
RiceConditions ==
    Conditions("rice", Num(60), Num(100), Num(35), Num(60), Num(35), Num(45),
               Num(20), Num(27), Num(80), Num(85), Rat(11, 2), Num(7), Num(180), Num(300))

MaizeConditions ==
    Conditions("maize", Num(60), Num(100), Num(35), Num(60), Num(15), Num(25),
               Num(18), Num(27), Num(55), Num(75), Rat(11, 2), Num(7), Num(60), Num(110))

OddConditions ==
    Conditions("odd", Num(-14), Num(280), Num(0), Num(150), Num(5), Num(205),
               Num(60), Num(50), Num(0), Num(100), Num(0), Num(14), Num(300), Num(330))

ConditionSamples == {RiceConditions, OddConditions}

ScoreSamples == {MkObject(<<90, 85, 95>>), MkObject(<<85, 90, 90, 95, 85, 90>>)}

Dom == [window |-> window, live |-> live, created |-> created]

InitCharts ==
    /\ call = NoCall
    /\ ret = <<>>
    /\ form \in FormSamples
    /\ PageInit

SetForm(f) ==
    /\ form # f
    /\ form' = f
    /\ UNCHANGED <<call, ret, window, live, created, pageVars>>

CallCreateConfidenceChart(confidenceScores) ==
    /\ created < MaxCharts
    /\ LET dom == createConfidenceChart(Dom, confidenceScores)
       IN  window' = dom.window /\ live' = dom.live /\ created' = dom.created
    /\ UNCHANGED <<call, ret, form, pageVars>>

CallCreateParameterComparisonChart(conditions) ==
    /\ created < MaxCharts
    /\ LET dom == createParameterComparisonChart(Dom, form, <<>>, conditions)
       IN  window' = dom.window /\ live' = dom.live /\ created' = dom.created
    /\ UNCHANGED <<call, ret, form, pageVars>>

CallCreateRangeChart(conditions) ==
    /\ created < MaxCharts
    /\ LET dom == createRangeChart(Dom, conditions.description, conditions)
       IN  window' = dom.window /\ live' = dom.live /\ created' = dom.created
    /\ UNCHANGED <<call, ret, form, pageVars>>

NextCharts ==
    \/ \E f \in FormSamples : SetForm(f)
    \/ \E o \in ScoreSamples : CallCreateConfidenceChart(o)
    \/ \E c \in ConditionSamples : CallCreateParameterComparisonChart(c)
    \/ \E c \in ConditionSamples : CallCreateRangeChart(c)

SpecCharts == InitCharts /\ [][NextCharts]_vars

\* C3: normalize does not clamp: in the parameter chart the 'Your Soil' bar of
\* every parameter is exactly the percentage of the user's value, below 0 for a
\* value below lo and above 100 for a value above hi, and the 'Optimal Range'
\* bar is exactly the difference of the percentages of the interval's ends.
C3_NoClamping ==
    window.parameterChart # Undefined =>
        LET chart == window.parameterChart
        IN  \A i \in 1..Len(Params) :
                LET lo == ranges[Params[i]][1]
                    hi == ranges[Params[i]][2]
                    value == chart.closure.userValues[i]
                    bar == chart.datasets[1].data[i]
                    optimal == chart.datasets[2].data[i]
                IN  /\ IsPercentOf(bar, value, lo, hi)
                    /\ (RLess(value, Num(lo)) => RLess(bar, Num(0)))
                    /\ (RLess(Num(hi), value) => RLess(Num(100), bar))
                    /\ IsPercentOf(optimal,
                                   RSub(chart.closure.conditionMax[i], chart.closure.conditionMin[i]),
                                   0, hi - lo)

C3_Witness ==
    /\ window.parameterChart # Undefined
    /\ window.parameterChart.closure.userValues[1] = Num(150)
    /\ RLess(Num(100), window.parameterChart.datasets[1].data[1])
    /\ window.parameterChart.closure.userValues[4] = Num(-5)
    /\ window.parameterChart.datasets[1].data[4] = Num(-10)
    /\ window.parameterChart.datasets[2].data[1] = Num(210)

\* the Parameter Domain table as the specification lists it, in the order
\* nitrogen, phosphorus, potassium, temperature, humidity, pH, rainfall
DomainTable ==
    << <<0, 140>>, <<5, 145>>, <<5, 205>>, <<0, 50>>, <<0, 100>>, <<0, 14>>, <<0, 300>> >>

\* C8: there are exactly seven domains, each with lo < hi and with the listed
\* values, the same in the comparison chart and in the range chart: whatever
\* has been drawn, every plotted percentage is the one over the listed domain.
C8_DomainTableFixed ==
    /\ Len(Params) = 7 /\ Len(DomainTable) = 7
    /\ \A i \in 1..Len(DomainTable) :
          /\ DomainTable[i][1] < DomainTable[i][2]
          /\ ranges[Params[i]] = DomainTable[i]
    /\ window.parameterChart # Undefined =>
          \A i \in 1..Len(DomainTable) :
              IsPercentOf(window.parameterChart.datasets[1].data[i],
                          window.parameterChart.closure.userValues[i],
                          DomainTable[i][1], DomainTable[i][2])
    /\ window.rangeChart # Undefined =>
          /\ Len(window.rangeChart.labels) = 7
          /\ \A i \in 1..Len(DomainTable) :
                /\ IsPercentOf(window.rangeChart.datasets[1].base[i],
                               window.rangeChart.closure.conditionMin[i],
                               DomainTable[i][1], DomainTable[i][2])
                /\ IsPercentOf(window.rangeChart.datasets[1].data[i],
                               RSub(window.rangeChart.closure.conditionMax[i],
                                    window.rangeChart.closure.conditionMin[i]),
                               0, DomainTable[i][2] - DomainTable[i][1])

C8_Witness ==
    /\ window.parameterChart # Undefined
    /\ window.rangeChart # Undefined
    /\ window.rangeChart.closure.conditionMin[2] = Num(0)
    /\ RLess(window.rangeChart.datasets[1].base[2], Num(0))
    /\ window.parameterChart.closure.userValues[2] = Num(145)
    /\ window.parameterChart.datasets[1].data[2] = Num(100)

LiveOn(charts, canvas) == {h \in charts : h.canvas = canvas}

HandleOf(chart) == [id |-> chart.id, canvas |-> chart.canvas]

\* the window properties a step assigns
Redrawn == {c \in DOMAIN window : window'[c] # window[c]}

\* C9: each canvas has at most one live chart, the one window refers to; a
\* redraw leaves the previous chart of its canvas destroyed, and nothing of
\* another canvas is destroyed, created or replaced by it.
C9_OneLiveChartPerCanvas ==
    /\ [](\A canvas \in Canvases :
            /\ Cardinality(LiveOn(live, canvas)) <= 1
            /\ \A c \in DOMAIN window :
                  window[c] # Undefined /\ window[c].canvas = canvas
                      => LiveOn(live, canvas) = {HandleOf(window[c])})
    /\ [][ /\ Cardinality(Redrawn) <= 1
           /\ \A c \in Redrawn :
                 /\ HandleOf(window[c]) \notin live'
                 /\ HandleOf(window'[c]) \in live'
                 /\ window'[c].id > window[c].id
                 /\ \A h \in (live \ live') \cup (live' \ live) :
                       /\ h.canvas = window'[c].canvas
                       /\ h \in {HandleOf(window[c]), HandleOf(window'[c])}
           /\ (Redrawn = {} => live' = live) ]_vars

C9_Witness ==
    /\ Cardinality(live) = 2
    /\ created = 3
    /\ window.rangeChart.id = 3
    /\ window.parameterChart.id = 1
    /\ window.confidenceChart = Undefined

----------------------------------------------------------------------------
(* Spec: the page.  Every action is one event handler or one promise       *)
(* callback, run to completion; the backend answers each fetch with any of *)
(* its possible responses, or the fetch fails.                             *)

MaxSubmits == 2

Rice == <<"r","i","c","e">>

\* /api/recommend responses
NoData == [success |-> FALSE, error |-> "", crop |-> <<>>, confidence_scores |-> <<>>]

RecommendResponses ==
    { [success |-> TRUE, error |-> "", crop |-> Rice,
       confidence_scores |-> MkObject(<<85, 95, 90, 85, 90, 85>>)],
      [success |-> FALSE, error |-> "Invalid input", crop |-> <<>>,
       confidence_scores |-> <<>>] }

\* /api/crop_conditions responses for a crop
NoConditions == UniformConditions(Num(0), Num(0))

ConditionsResponses(crop) ==
    { [success |-> TRUE, error |-> "",
       conditions |-> IF crop = Rice THEN RiceConditions ELSE MaizeConditions],
      [success |-> FALSE, error |-> "Crop not found", conditions |-> NoConditions] }

CropOptions == {Rice, Maize}

\* obj[key] of an object that has the key
Lookup(object, key) ==
    object[CHOOSE i \in 1..Len(object) : object[i].key = key].value

\* displayError: the alert goes in front of the others; its two timers are
\* the actions AlertTimeout and AlertRemove
displayError(pg, message) ==
    [pg EXCEPT !.alerts = <<[message |-> message, show |-> TRUE]>> \o pg.alerts]

\* the rows updateParameterTable writes: the value is the form field's string
TableParameters ==
    << [id |-> "nitrogen", name |-> "Nitrogen (N)", key |-> "n"],
       [id |-> "phosphorus", name |-> "Phosphorus (P)", key |-> "p"],
       [id |-> "potassium", name |-> "Potassium (K)", key |-> "k"],
       [id |-> "temperature", name |-> "Temperature", key |-> "temp"],
       [id |-> "humidity", name |-> "Humidity", key |-> "humidity"],
       [id |-> "ph", name |-> "pH", key |-> "ph"],
       [id |-> "rainfall", name |-> "Rainfall", key |-> "rainfall"] >>

\* formElement is the form as it is when the function runs; data is not read
updateParameterTable(pg, formElement, data, conditions) ==
    [pg EXCEPT !.parameterTable =
        [i \in 1..Len(TableParameters) |->
            [name |-> TableParameters[i].name,
             value |-> formElement[TableParameters[i].id],
             min |-> condMin(conditions, TableParameters[i].key),
             max |-> condMax(conditions, TableParameters[i].key)]]]

Request(id, from, submitted, data, crop) ==
    [id |-> id, from |-> from, submitted |-> submitted, data |-> data, crop |-> crop]

\* the user edits the recommendation form
EditForm(f) == SetForm(f)

handleRecommendationFormSubmit ==
    /\ sent < MaxSubmits
    /\ sent' = sent + 1
    /\ page' = [page EXCEPT !.loadingSpinner = "block", !.resultsSection = "none"]
    /\ pending' = pending \cup {Request(sent + 1, "recommend", form, NoData, <<>>)}
    /\ UNCHANGED <<call, ret, form, window, live, created, passes>>

\* displayResults up to its fetch; the fetch's callbacks close over data.
\* submitted (the form data the recommendation was asked for) is carried for
\* the history only.
displayResults(pg, data) ==
    [pg EXCEPT !.cropName = capitalizeFirstLetter(data.crop),
               \* Math.round of a score, which the responses give as integers
               !.cropConfidence = Lookup(data.confidence_scores, data.crop),
               !.resultsSection = "block"]

\* .then(data => ...) of the recommend fetch
RecommendThen(r, data) ==
    /\ r \in pending /\ r.from = "recommend"
    /\ LET hidden == [page EXCEPT !.loadingSpinner = "none"]
       IN  IF data.success
           THEN /\ page' = displayResults(hidden, data)
                /\ pending' = (pending \ {r})
                      \cup {Request(r.id, "displayResults", r.submitted, data, data.crop)}
           ELSE /\ page' = displayError(hidden, data.error)
                /\ pending' = pending \ {r}
    /\ UNCHANGED <<call, ret, form, window, live, created, sent, passes>>

\* .catch(error => ...) of the recommend fetch
RecommendCatch(r) ==
    /\ r \in pending /\ r.from = "recommend"
    /\ page' = displayError([page EXCEPT !.loadingSpinner = "none"],
                   "An error occurred while processing your request. Please try again later.")
    /\ pending' = pending \ {r}
    /\ UNCHANGED <<call, ret, form, window, live, created, sent, passes>>

\* what one rendering pass of the parameter chart was given and what it plotted
Pass(r, conditions, chart) ==
    [submitted |-> r.submitted, data |-> r.data, conditions |-> conditions,
     user |-> chart.datasets[1].data, optimal |-> chart.datasets[2].data]

\* .then(conditionsData => ...) of the crop_conditions fetch of displayResults
ConditionsThen(r, conditionsData) ==
    /\ r \in pending /\ r.from = "displayResults"
    /\ pending' = pending \ {r}
    /\ IF conditionsData.success
       THEN LET conditions == conditionsData.conditions
                described == [page EXCEPT !.cropDescription =
                                 IF conditions.description = ""
                                 THEN "A suitable crop for your soil conditions."
                                 ELSE conditions.description]
                drawn == createParameterComparisonChart(
                             createConfidenceChart(Dom, r.data.confidence_scores),
                             form, r.data, conditions)
            IN  /\ page' = updateParameterTable(described, form, r.data, conditions)
                /\ window' = drawn.window
                /\ live' = drawn.live
                /\ created' = drawn.created
                /\ passes' = passes \cup {Pass(r, conditions, drawn.window.parameterChart)}
       ELSE UNCHANGED <<page, window, live, created, passes>>
    /\ UNCHANGED <<call, ret, form, sent>>

\* .catch(error => ...) of the crop_conditions fetch of displayResults
ConditionsCatch(r) ==
    /\ r \in pending /\ r.from = "displayResults"
    /\ pending' = pending \ {r}
    /\ LET drawn == createConfidenceChart(Dom, r.data.confidence_scores)
       IN  window' = drawn.window /\ live' = drawn.live /\ created' = drawn.created
    /\ UNCHANGED <<call, ret, form, page, sent, passes>>

\* the crop_conditions response says success true but carries no conditions:
\* the then-callback throws a TypeError reading conditionsData.conditions
\* .description, before it has changed anything, and the rejection goes to
\* the catch callback
ConditionsThenThrows(r) ==
    /\ r \in pending /\ r.from = "displayResults"
    /\ pending' = pending \ {r}
    /\ LET drawn == createConfidenceChart(Dom, r.data.confidence_scores)
       IN  window' = drawn.window /\ live' = drawn.live /\ created' = drawn.created
    /\ UNCHANGED <<call, ret, form, page, sent, passes>>

\* handleReverseLookupFormSubmit with the check of the selection moved after
\* the spinner and the section
handleReverseLookupFormSubmitCheckLast(selectedCrop) ==
    /\ sent < MaxSubmits
    /\ sent' = sent + 1
    /\ LET shown == [page EXCEPT !.reverseLoadingSpinner = "block",
                                 !.conditionsSection = "none"]
       IN  IF selectedCrop = <<>>
           THEN /\ page' = displayError(shown, "Please select a crop")
                /\ UNCHANGED pending
           ELSE /\ page' = shown
                /\ pending' = pending
                      \cup {Request(sent + 1, "reverse", form, NoData, selectedCrop)}
    /\ UNCHANGED <<call, ret, form, window, live, created, passes>>

\* selectedCrop is cropSelect.value, the option the user has picked ('' for
\* the placeholder)
handleReverseLookupFormSubmit(selectedCrop) ==
    /\ sent < MaxSubmits
    /\ sent' = sent + 1
    /\ IF selectedCrop = <<>>
       THEN /\ page' = displayError(page, "Please select a crop")
            /\ UNCHANGED pending
       ELSE /\ page' = [page EXCEPT !.reverseLoadingSpinner = "block",
                                    !.conditionsSection = "none"]
            /\ pending' = pending
                  \cup {Request(sent + 1, "reverse", form, NoData, selectedCrop)}
    /\ UNCHANGED <<call, ret, form, window, live, created, passes>>

\* displayCropConditions without its chart
displayCropConditions(pg, cropName, conditions) ==
    [pg EXCEPT !.conditionsCropName = capitalizeFirstLetter(cropName),
               !.conditionsCropDescription = conditions.description,
               !.conditionsTable =
                   [i \in 1..Len(TableParameters) |->
                       [name |-> TableParameters[i].name,
                        min |-> condMin(conditions, TableParameters[i].key),
                        max |-> condMax(conditions, TableParameters[i].key)]],
               !.conditionsSection = "block"]

\* .then(data => ...) of the crop_conditions fetch of the reverse lookup
ReverseThen(r, data) ==
    /\ r \in pending /\ r.from = "reverse"
    /\ pending' = pending \ {r}
    /\ LET hidden == [page EXCEPT !.reverseLoadingSpinner = "none"]
       IN  IF data.success
           THEN LET drawn == createRangeChart(Dom, r.crop, data.conditions)
                IN  /\ page' = displayCropConditions(hidden, r.crop, data.conditions)
                    /\ window' = drawn.window
                    /\ live' = drawn.live
                    /\ created' = drawn.created
           ELSE /\ page' = displayError(hidden, data.error)
                /\ UNCHANGED <<window, live, created>>
    /\ UNCHANGED <<call, ret, form, sent, passes>>

\* .catch(error => ...) of the crop_conditions fetch of the reverse lookup
ReverseCatch(r) ==
    /\ r \in pending /\ r.from = "reverse"
    /\ pending' = pending \ {r}
    /\ page' = displayError([page EXCEPT !.reverseLoadingSpinner = "none"],
                   "An error occurred while processing your request. Please try again later.")
    /\ UNCHANGED <<call, ret, form, window, live, created, sent, passes>>

\* the 5 s timer of displayError: errorAlert.classList.remove('show')
AlertTimeout(i) ==
    /\ i \in 1..Len(page.alerts)
    /\ page.alerts[i].show
    /\ page' = [page EXCEPT !.alerts[i].show = FALSE]
    /\ UNCHANGED <<call, ret, form, window, live, created, pending, sent, passes>>

\* the 300 ms timer set by the first: errorAlert.remove()
AlertRemove(i) ==
    /\ i \in 1..Len(page.alerts)
    /\ ~page.alerts[i].show
    /\ page' = [page EXCEPT !.alerts =
                   SubSeq(page.alerts, 1, i - 1) \o SubSeq(page.alerts, i + 1, Len(page.alerts))]
    /\ UNCHANGED <<call, ret, form, window, live, created, pending, sent, passes>>

\* the values the user gives the form on the page: two of the samples
PageForms == {f \in FormSamples : f.nitrogen \in {<<"7","0">>, <<"2","0">>}}

Init ==
    /\ call = NoCall
    /\ ret = <<>>
    /\ form \in PageForms
    /\ PageInit

Next ==
    \/ \E f \in PageForms : EditForm(f)
    \/ handleRecommendationFormSubmit
    \/ \E r \in pending : \E data \in RecommendResponses : RecommendThen(r, data)
    \/ \E r \in pending : RecommendCatch(r)
    \/ \E r \in pending : \E data \in ConditionsResponses(r.crop) : ConditionsThen(r, data)
    \/ \E r \in pending : ConditionsThenThrows(r)
    \/ \E r \in pending : ConditionsCatch(r)
    \/ \E c \in CropOptions \cup {<<>>} : handleReverseLookupFormSubmit(c)
    \/ \E r \in pending : \E data \in ConditionsResponses(r.crop) : ReverseThen(r, data)
    \/ \E r \in pending : ReverseCatch(r)
    \/ \E i \in 1..MaxSubmits : AlertTimeout(i)
    \/ \E i \in 1..MaxSubmits : AlertRemove(i)

Spec == Init /\ [][Next]_vars

\* C10: two rendering passes of the parameter comparison chart for the same
\* request, given the same fetched recommendation and the same conditions,
\* plot the same 'Your Soil' and 'Optimal Range' values, whatever happened
\* (edits of the form included) between the request and each pass.
C10_SameFetchedDataSamePlot ==
    \A a \in passes : \A b \in passes :
        (a.submitted = b.submitted /\ a.data = b.data /\ a.conditions = b.conditions)
            => (a.user = b.user /\ a.optimal = b.optimal)

----------------------------------------------------------------------------
(* Upstream failures.                                                      *)

\* the callback that ends request r reports an upstream failure: the fetch
\* failed, or the response says success false
UpstreamFailure(r) ==
    \/ RecommendCatch(r)
    \/ \E data \in RecommendResponses : ~data.success /\ RecommendThen(r, data)
    \/ ConditionsCatch(r)
    \/ \E data \in ConditionsResponses(r.crop) : ~data.success /\ ConditionsThen(r, data)
    \/ ReverseCatch(r)
    \/ \E data \in ConditionsResponses(r.crop) : ~data.success /\ ReverseThen(r, data)

\* the step put a new alert, still shown, in front of the others
AlertAdded ==
    /\ Len(page'.alerts) = Len(page.alerts) + 1
    /\ page'.alerts[1].show
    /\ \A i \in 1..Len(page.alerts) : page'.alerts[i + 1] = page.alerts[i]

\* C11: every callback that reports an upstream failure of a backend call
\* (recommend, or crop_conditions of either page) shows the user an error
\* message.
C11_FailureSurfaced ==
    [][\A r \in pending : UpstreamFailure(r) => AlertAdded]_vars

----------------------------------------------------------------------------
(* The confidence chart of a displayed recommendation.                     *)

\* the callbacks that end the crop_conditions request of displayResults
ConditionsObtained(r) ==
    \E data \in ConditionsResponses(r.crop) : data.success /\ ConditionsThen(r, data)

ConditionsNotObtained(r) ==
    \/ \E data \in ConditionsResponses(r.crop) : ~data.success /\ ConditionsThen(r, data)
    \/ ConditionsThenThrows(r)
    \/ ConditionsCatch(r)

\* chart is a live chart of the top five of confidenceScores
ShowsScores(chart, liveCharts, confidenceScores) ==
    LET top5 == topK(confidenceScores, TopCount)
    IN  /\ chart # Undefined
        /\ [id |-> chart.id, canvas |-> "confidence-chart"] \in liveCharts
        /\ chart.labels = [i \in 1..Len(top5) |-> top5[i].crop]
        /\ chart.datasets[1].data = [i \in 1..Len(top5) |-> top5[i].score]

\* C12: the callback that ends the crop_conditions request of a displayed
\* recommendation leaves a confidence chart of that recommendation's scores,
\* whether the conditions were obtained or not; when they were not, the
\* parameter table and the parameter comparison chart are left as they were.
C12_ConfidenceChartCreated ==
    [][\A r \in pending :
          /\ (ConditionsObtained(r) \/ ConditionsNotObtained(r))
                => ShowsScores(window'.confidenceChart, live', r.data.confidence_scores)
          /\ ConditionsNotObtained(r)
                => /\ page'.parameterTable = page.parameterTable
                   /\ window'.parameterChart = window.parameterChart]_vars

----------------------------------------------------------------------------
(* SpecEncyclopedia: the crop encyclopedia page.  loadCropEncyclopedia     *)
(* asks for the crop list, then for the conditions of every crop; each     *)
(* response is handled by its own callback, in the order the responses     *)
(* arrive.                                                                 *)

MaxCrops == 3

Jute == <<"j","u","t","e">>

CropPool == {Rice, Maize, Wheat, Jute}

\* the crop lists /api/crops may give: up to MaxCrops crops, in any order
CropLists ==
    {crops \in UNION {[1..n -> CropPool] : n \in 0..MaxCrops} :
        \A i \in 1..Len(crops) : \A j \in 1..Len(crops) : crops[i] = crops[j] => i = j}

CropsResponses ==
    {[success |-> TRUE, crops |-> crops] : crops \in CropLists}
        \cup {[success |-> FALSE, crops |-> <<>>]}

\* the description is a string of characters here, since the card cuts it
CardConditions(crop) ==
    [(IF crop = Rice THEN RiceConditions ELSE MaizeConditions) EXCEPT
        !.description = IF crop = Wheat
                        THEN [i \in 1..120 |-> IF i % 2 = 1 THEN "a" ELSE "b"]
                        ELSE <<"G","r","o","w","s"," ">> \o crop]

CardResponses(crop) ==
    { [success |-> TRUE, conditions |-> CardConditions(crop)],
      [success |-> FALSE, conditions |-> NoConditions] }

FilterValues == { <<>>, <<"r","i">>, <<"M","A">> }

\* the UTF-16 code unit of a character of the names
CodeUnit(c) ==
    IF \E i \in 1..Len(LowerCase) : LowerCase[i] = c
    THEN 96 + (CHOOSE i \in 1..Len(LowerCase) : LowerCase[i] = c)
    ELSE IF \E i \in 1..Len(UpperCase) : UpperCase[i] = c
         THEN 64 + (CHOOSE i \in 1..Len(UpperCase) : UpperCase[i] = c)
         ELSE 32

\* a < b of two strings: by code units, a proper prefix first
RECURSIVE stringLess(_, _)
stringLess(a, b) ==
    IF b = <<>> THEN FALSE
    ELSE IF a = <<>> THEN TRUE
    ELSE IF CodeUnit(a[1]) # CodeUnit(b[1]) THEN CodeUnit(a[1]) < CodeUnit(b[1])
    ELSE stringLess(Tail(a), Tail(b))

\* Array.prototype.sort() without a comparator, on strings
RECURSIVE insertString(_, _)
insertString(sorted, x) ==
    IF sorted = <<>> THEN <<x>>
    ELSE IF stringLess(x, sorted[Len(sorted)])
         THEN Append(insertString(SubSeq(sorted, 1, Len(sorted) - 1), x), sorted[Len(sorted)])
         ELSE Append(sorted, x)

RECURSIVE sortStrings(_)
sortStrings(array) ==
    IF array = <<>> THEN <<>>
    ELSE insertString(sortStrings(SubSeq(array, 1, Len(array) - 1)), array[Len(array)])

\* String.prototype.toLowerCase
toLowerCase(string) ==
    [i \in 1..Len(string) |->
        IF \E j \in 1..Len(UpperCase) : UpperCase[j] = string[i]
        THEN LowerCase[CHOOSE j \in 1..Len(UpperCase) : UpperCase[j] = string[i]]
        ELSE string[i]]

\* String.prototype.includes
includes(string, searchString) ==
    \E i \in 0..(Len(string) - Len(searchString)) :
        SubSeq(string, i + 1, i + Len(searchString)) = searchString

\* String.prototype.substring(start, end) for 0 <= start <= end
substring(string, start, end) ==
    SubSeq(string, start + 1, IF end < Len(string) THEN end ELSE Len(string))

\* the requests of this page: the crop list, and the conditions of one crop
\* together with the crop's index in the sorted list
CropsRequest == [from |-> "crops", crop |-> <<>>, index |-> 0]

CardRequest(crop, index) == [from |-> "card", crop |-> crop, index |-> index]

\* the card: data-crop, title, image (its number in cropImages), the cut
\* description, the two ranges shown, and style.display of its column
createCropCard(cropName, conditions, index) ==
    [crop |-> cropName,
     title |-> capitalizeFirstLetter(cropName),
     image |-> index % 6,
     text |-> substring(conditions.description, 0, 100) \o <<".",".",".">>,
     temperature |-> <<conditions.temperature_min, conditions.temperature_max>>,
     rainfall |-> <<conditions.rainfall_min, conditions.rainfall_max>>,
     display |-> ""]

\* called once, when the page has loaded
loadCropEncyclopedia ==
    /\ sent = 0
    /\ sent' = 1
    /\ pending' = pending \cup {CropsRequest}
    /\ UNCHANGED <<call, ret, form, window, live, created, page, passes>>

\* .then(data => ...) of the crops fetch: one conditions fetch per crop
CropsThen(r, data) ==
    /\ r \in pending /\ r.from = "crops"
    /\ IF data.success
       THEN LET crops == sortStrings(data.crops)
            IN  pending' = (pending \ {r})
                    \cup {CardRequest(crops[i], i - 1) : i \in 1..Len(crops)}
       ELSE pending' = pending \ {r}
    /\ UNCHANGED <<call, ret, form, window, live, created, page, sent, passes>>

\* .catch(error => ...) of the crops fetch: console.error
CropsCatch(r) ==
    /\ r \in pending /\ r.from = "crops"
    /\ pending' = pending \ {r}
    /\ UNCHANGED <<call, ret, form, window, live, created, page, sent, passes>>

\* .then(conditionsData => ...) of the conditions fetch of one crop
CardThen(r, conditionsData) ==
    /\ r \in pending /\ r.from = "card"
    /\ pending' = pending \ {r}
    /\ IF conditionsData.success
       THEN page' = [page EXCEPT !.cropGrid =
                        Append(@, createCropCard(r.crop, conditionsData.conditions, r.index))]
       ELSE UNCHANGED page
    /\ UNCHANGED <<call, ret, form, window, live, created, sent, passes>>

\* the conditions fetch of one crop fails: it has no catch callback
CardRejected(r) ==
    /\ r \in pending /\ r.from = "card"
    /\ pending' = pending \ {r}
    /\ UNCHANGED <<call, ret, form, window, live, created, page, sent, passes>>

\* filterValue is what the user has typed into crop-filter
filterCrops(filterValue) ==
    /\ LET filterText == toLowerCase(filterValue)
           cropCards == page.cropGrid
       IN  page' = [page EXCEPT !.cropGrid =
                       [i \in 1..Len(cropCards) |->
                           [cropCards[i] EXCEPT !.display =
                               IF includes(cropCards[i].crop, filterText)
                               THEN "block" ELSE "none"]]]
    /\ UNCHANGED <<call, ret, form, window, live, created, pending, sent, passes>>

InitEncyclopedia ==
    /\ call = NoCall
    /\ ret = <<>>
    /\ form \in {CHOOSE f \in FormSamples : TRUE}
    /\ PageInit

NextEncyclopedia ==
    \/ loadCropEncyclopedia
    \/ \E r \in pending : \E data \in CropsResponses : CropsThen(r, data)
    \/ \E r \in pending : CropsCatch(r)
    \/ \E r \in pending : \E data \in CardResponses(r.crop) : CardThen(r, data)
    \/ \E r \in pending : CardRejected(r)
    \/ \E v \in FilterValues : filterCrops(v)

SpecEncyclopedia == InitEncyclopedia /\ [][NextEncyclopedia]_vars

\* C13: at every moment the cards in the grid are in alphabetical order of
\* crop name; in particular they are once every response has arrived.
C13_GridSorted ==
    \A i \in 1..Len(page.cropGrid) : \A j \in 1..Len(page.cropGrid) :
        i < j => ~stringLess(page.cropGrid[j].title, page.cropGrid[i].title)

----------------------------------------------------------------------------
(* The reverse lookup form submitted with no crop selected.                *)

\* C14: submitting the reverse lookup form with no crop selected puts the
\* alert 'Please select a crop' in front of the others and changes nothing
\* else: no request is sent, the reverse-lookup spinner, the conditions
\* section, its crop name, description and table, and the charts (the range
\* chart among them) are as they were.
C14_NoCropOnlyError ==
    [][handleReverseLookupFormSubmit(<<>>) =>
          /\ AlertAdded
          /\ page'.alerts[1].message = "Please select a crop"
          /\ pending' = pending
          /\ page'.reverseLoadingSpinner = page.reverseLoadingSpinner
          /\ page'.conditionsSection = page.conditionsSection
          /\ page'.conditionsTable = page.conditionsTable
          /\ window'.rangeChart = window.rangeChart
          /\ \A field \in DOMAIN page \ {"alerts"} : page'[field] = page[field]
          /\ window' = window /\ live' = live /\ created' = created
          /\ form' = form]_vars

\* the form was submitted with no crop selected while the conditions of an
\* earlier lookup were on display
C14_Witness ==
    /\ \E i \in 1..Len(page.alerts) : page.alerts[i].message = "Please select a crop"
    /\ page.conditionsSection = "block"
    /\ page.conditionsTable # <<>>
    /\ window.rangeChart # Undefined
    /\ page.reverseLoadingSpinner = "none"
    /\ \A r \in pending : r.from # "reverse"

----------------------------------------------------------------------------
(* The loading spinner of the recommendation form.                         *)

RecommendInFlight == {r \in pending : r.from = "recommend"}

\* C15: the loading spinner is displayed whenever at least one recommend
\* request is in flight, and hidden whenever none is.
C15_SpinnerTracksRequests ==
    /\ RecommendInFlight # {} => page.loadingSpinner = "block"
    /\ RecommendInFlight = {} => page.loadingSpinner = "none"

====
